---- MODULE Spec2Model ----
(***************************************************************************)
(* AskStan (instana-chatbot): the Streamlit session of src/app.py, the     *)
(* streaming generator stream_response_generator, and the retrieval       *)
(* functions of src/core/rag.py and src/core/llm.py.                      *)
(*                                                                         *)
(* A Streamlit session runs the script of app.py from the top once per    *)
(* event (widget interaction or rerun request).  The script thread is     *)
(* single; a new event reaching a running script stops that run at its    *)
(* next st.* call and starts a fresh one.  A blocking call that never     *)
(* returns has no such point.                                              *)
(***************************************************************************)
EXTENDS Integers, Sequences, FiniteSets, TLC

\* ---------------------------------------------------------------- bounds
MaxLimit == 2          \* largest CHAT_TURNS_LIMIT explored
MaxHistory == 5        \* longest session history explored
MaxFrags == 2          \* most fragments the model service streams per response
MaxResults == 3        \* most candidates the vector search returns
MaxPages == 3          \* most pages of a source document
MaxDocs == 120         \* most chunks handed to the ingestion loop

\* ------------------------------------------------------ program constants
FILTER_THRESHOLD == 30     \* the literal 0.3 of search_with_scores, in 1/100
PREVIEW_LEN == 400         \* the literal 400 of get_detailed_context
ELLIPSIS_LEN == 3          \* len("...")

Inputs == {"q1", "q2"}                 \* texts typed into st.chat_input
Frags == {"f1"}                        \* fragments streamed by the model
ERR == "RAG LLM error"                 \* the fragment of app.py line 111

VARIABLES
    history,          \* st.session_state.history
    turns,            \* st.session_state.turns
    qr_shown,         \* st.session_state.qr_shown
    streaming_chain,  \* st.session_state.streaming_chain
    limit,            \* CHAT_TURNS_LIMIT
    dialog,           \* the st.dialog of show_qr_dialog is open in the browser
    input_disabled,   \* the disabled flag st.chat_input was last rendered with
    pc,               \* position of the script run: idle, retrieve, stream
    user_input,       \* user_input of the run in progress
    rag_context,      \* rag_context of the run in progress (line 156)
    lc_history,       \* lc_history built by the generator
    llm_input,        \* what the chain hands to the model
    frags,            \* fragments the generator has yielded so far
    gen,              \* generator position: none, new, chain, llm, ended, raised
    retrCalls,        \* get_rag_context invocations of the run in progress
    stalled,          \* the run is blocked in an upstream call that never returns
    completed,        \* submissions completed since the session (re)started
    event,            \* the event or step the session handled last
    r_pc,             \* retrieval called alone: off, call, then the function called
    r_self,           \* the InstanaRAGSystem under call (its configured fields)
    r_results,        \* what the vector store returns for the query
    r_fail,           \* the step of the retrieval that raises, if any
    r_out,            \* the value the retrieval returned
    env,              \* the required environment values that are set
    boot,             \* first script run of the session: new, ok, failed
    s_pc,             \* PDF step of main: off, call, done, raised, stats,
                      \* printed, KeyError
    s_pages,          \* the text length of each page PyPDFLoader returns
    s_chunks,         \* what process_pdf returned
    s_stats,          \* what get_document_stats returned
    g_pc,             \* ingestion job: off, insert, verify, done
    g_n,              \* len(documents) of the ingestion job
    g_i,              \* the loop variable i of main
    g_attempts,       \* add_documents calls made so far
    g_store,          \* batches the vector store holds, in insertion order
    g_result          \* what main returned

vars == <<history, turns, qr_shown, streaming_chain, limit, dialog,
          input_disabled, pc, user_input, rag_context, lc_history, llm_input,
          frags, gen, retrCalls, stalled, completed, event,
          r_pc, r_self, r_results, r_fail, r_out,
          env, boot, s_pc, s_pages, s_chunks, s_stats,
          g_pc, g_n, g_i, g_attempts, g_store, g_result>>

sessionVars == <<history, turns, qr_shown, streaming_chain, limit>>
retrVars == <<r_pc, r_self, r_results, r_fail, r_out>>
configVars == <<env, boot>>
splitVars == <<s_pc, s_pages, s_chunks, s_stats>>
ingestVars == <<g_pc, g_n, g_i, g_attempts, g_store, g_result>>
offlineVars == <<retrVars, configVars, splitVars, ingestVars>>
runVars == <<user_input, rag_context, lc_history, llm_input, frags, gen,
             retrCalls>>

NoContext == [kind |-> "none", parts |-> <<>>, sources |-> <<>>,
              total_documents |-> 0, average_score |-> 0]
NoInput == [input |-> "", context |-> NoContext, history |-> <<>>]

\* ===================================================== retrieval engine
\* A search hit (Document, score): the score in 1/100, the chunk's text by
\* its length.
dA == [id |-> "A", page |-> 1, score |-> 50, len |-> 120]
dB == [id |-> "B", page |-> 2, score |-> 25, len |-> 400]
dC == [id |-> "C", page |-> 3, score |-> 31, len |-> 401]
dD == [id |-> "D", page |-> 4, score |-> 30, len |-> 90]
Hits == {dA, dB, dC, dD}

RECURSIVE SeqsUpTo(_, _)
SeqsUpTo(S, n) ==
    IF n = 0 THEN {<<>>}
    ELSE LET shorter == SeqsUpTo(S, n - 1)
         IN shorter \cup {Append(q, x) : q \in shorter, x \in S}

\* similarity_search_with_score(query, k): at most k hits, in the store's order
SearchResults == SeqsUpTo(Hits, MaxResults)

FailModes == {"none", "init", "search", "assemble"}

DEFAULT_TOP_K == 10
CHUNK_SIZE == 1000         \* PDFProcessor(chunk_size=1000, ...)
CHUNK_OVERLAP == 200       \* PDFProcessor(..., chunk_overlap=200)
BATCH_SIZE == 50           \* batch_size of the ingestion loop
DEFAULT_SIMILARITY_THRESHOLD == 40

\* InstanaRAGSystem.__init__
InstanaRAGSystem(top_k, similarity_threshold) ==
    [top_k |-> top_k, similarity_threshold |-> similarity_threshold]

\* create_rag_system(): the constructor's defaults
create_rag_system == InstanaRAGSystem(DEFAULT_TOP_K, DEFAULT_SIMILARITY_THRESHOLD)

Min(a, b) == IF a < b THEN a ELSE b

\* MilvusVectorStoreManager.similarity_search_with_score(query, k)
similarity_search_with_score(results, k) == SubSeq(results, 1, Min(k, Len(results)))

\* search_with_scores with the comparison "score > 0.3"
search_with_scores_strict(self, results, fail) ==
    IF fail = "search" THEN <<>>
    ELSE SelectSeq(similarity_search_with_score(results, self.top_k),
                   LAMBDA r : r.score > FILTER_THRESHOLD)

\* InstanaRAGSystem.search_with_scores: the filter compares with the literal 0.3
search_with_scores(self, results, fail) ==
    IF fail = "search" THEN <<>>
    ELSE SelectSeq(similarity_search_with_score(results, self.top_k),
                   LAMBDA r : r.score >= FILTER_THRESHOLD)

\* get_detailed_context without the truncation of lines 175-176
content_len_whole(n) == n

\* content = doc.page_content; if len(content) > 400: content = content[:400] + "..."
content_len(n) == IF n > PREVIEW_LEN THEN PREVIEW_LEN + ELLIPSIS_LEN ELSE n

RECURSIVE SumScores(_)
SumScores(rs) == IF rs = <<>> THEN 0 ELSE Head(rs).score + SumScores(Tail(rs))

\* round(total_score / len(results), 4), in 1/10000
average_score(rs) == (2 * 100 * SumScores(rs) + Len(rs)) \div (2 * Len(rs))

NOT_FOUND == [kind |-> "not_found", parts |-> <<>>, sources |-> <<>>,
              total_documents |-> 0, average_score |-> 0]
CONTEXT_ERROR == [kind |-> "context_error", parts |-> <<>>, sources |-> <<>>,
                  total_documents |-> 0, average_score |-> 0]

\* get_detailed_context without its "if not results" return: the average
\* divides by zero and the except branch answers
get_detailed_context_unguarded(self, results, fail) ==
    LET rs == search_with_scores(self, results, fail)
    IN  IF rs = <<>> \/ fail = "assemble" THEN CONTEXT_ERROR
        ELSE [kind |-> "docs",
              parts |-> [i \in 1..Len(rs) |->
                          [document_id |-> i, page |-> rs[i].page,
                           score |-> rs[i].score, id |-> rs[i].id,
                           content_len |-> content_len(rs[i].len)]],
              sources |-> [i \in 1..Len(rs) |->
                          [document_id |-> i, page |-> rs[i].page,
                           chunk_id |-> rs[i].id, score |-> rs[i].score]],
              total_documents |-> Len(rs),
              average_score |-> average_score(rs)]

\* InstanaRAGSystem.get_detailed_context
get_detailed_context(self, results, fail) ==
    LET rs == search_with_scores(self, results, fail)
    IN  IF rs = <<>> THEN NOT_FOUND
        ELSE IF fail = "assemble" THEN CONTEXT_ERROR
        ELSE [kind |-> "docs",
              parts |-> [i \in 1..Len(rs) |->
                          [document_id |-> i, page |-> rs[i].page,
                           score |-> rs[i].score, id |-> rs[i].id,
                           content_len |-> content_len(rs[i].len)]],
              sources |-> [i \in 1..Len(rs) |->
                          [document_id |-> i, page |-> rs[i].page,
                           chunk_id |-> rs[i].id, score |-> rs[i].score]],
              total_documents |-> Len(rs),
              average_score |-> average_score(rs)]

\* core.llm.get_rag_context: a fresh default system per call
get_rag_context(results, fail) ==
    IF fail = "init" THEN NOT_FOUND
    ELSE get_detailed_context(create_rag_system, results, fail)

\* ============================================================= session
\* The vector store's answers seen by a running session.
SessionResults == {<<>>, <<dA, dB>>}

UserTurn(u) == [role |-> "user", content |-> <<u>>]
AssistantTurn(full_response) == [role |-> "assistant", content |-> full_response]

\* the comparison of line 142 off by one
input_disabled_strict(t, l) == t > l

\* input_disabled = st.session_state.turns >= CHAT_TURNS_LIMIT
input_disabled_at(t, l) == t >= l

\* line 145 without "and not input_disabled"
accepted_any(dis) == TRUE

\* if user_input is not None and not input_disabled:
accepted(dis) == ~dis

\* the loop of stream_response_generator over history instead of history[:-1]
to_lc_history_all(h) ==
    [i \in 1..Len(h) |->
        [tag |-> IF h[i].role = "user" THEN "human" ELSE "ai",
         content |-> h[i].content]]

\* the loop of stream_response_generator over history[:-1]
to_lc_history(h) ==
    [i \in 1..(Len(h) - 1) |->
        [tag |-> IF h[i].role = "user" THEN "human" ELSE "ai",
         content |-> h[i].content]]

\* build_streaming_chain.enhance_query_with_context
enhance_query_with_context(inputs, context_info) ==
    [input |-> inputs.input, context |-> context_info, history |-> inputs.history]

\* the generator without its except branch: the exception reaches the consumer
on_exception_reraise(fs) == [frags |-> fs, gen |-> "raised"]

\* except Exception as e: yield f"... {e}"
on_exception(fs) == [frags |-> Append(fs, ERR), gen |-> "ended"]

ResetRun ==
    /\ user_input' = ""
    /\ rag_context' = NoContext
    /\ lc_history' = <<>>
    /\ llm_input' = NoInput
    /\ frags' = <<>>
    /\ gen' = "none"
    /\ retrCalls' = 0

\* the environment values the claims call required
RequiredEnv == {"WATSONX_APIKEY", "WATSONX_URL", "WATSONX_PROJECT_ID",
                "CHAT_TURNS_LIMIT"}

\* CHAT_TURNS_LIMIT = int(os.getenv("CHAT_TURNS_LIMIT")): int(None) raises
limit_ok(e) == "CHAT_TURNS_LIMIT" \in e

\* build_llm checking all([url, project_id]) only
build_llm_ok_without_key(e) == {"WATSONX_URL", "WATSONX_PROJECT_ID"} \subseteq e

\* build_llm: if not all([api_key, url, project_id]): raise RuntimeError
build_llm_ok(e) ==
    {"WATSONX_APIKEY", "WATSONX_URL", "WATSONX_PROJECT_ID"} \subseteq e

\* lines 49-55 of a script run: the limit is read on every run, the chain is
\* built when the session state does not hold one
script_top_ok(e, chain) ==
    IF limit_ok(e) THEN (IF chain = "none" THEN build_llm_ok(e) ELSE TRUE)
    ELSE FALSE

ConfigOk == env = RequiredEnv /\ boot = "ok"
SplitIdle == s_pc = "off" /\ s_pages = <<>> /\ s_chunks = <<>> /\ s_stats = <<>>
IngestIdle ==
    /\ g_pc = "off"
    /\ g_n = 0
    /\ g_i = 0
    /\ g_attempts = 0
    /\ g_store = <<>>
    /\ g_result = "none"

TypeOK ==
    /\ turns \in 0..(MaxLimit + 1)
    /\ limit \in 1..MaxLimit
    /\ qr_shown \in BOOLEAN /\ dialog \in BOOLEAN /\ input_disabled \in BOOLEAN
    /\ stalled \in BOOLEAN
    /\ pc \in {"idle", "retrieve", "stream"}
    /\ gen \in {"none", "new", "chain", "llm", "ended", "raised"}
    /\ Len(history) <= MaxHistory
    /\ Len(frags) <= MaxFrags + 1

Init ==
    /\ history = <<>>
    /\ turns = 0
    /\ qr_shown = FALSE
    /\ streaming_chain = "chain"
    /\ limit \in 1..MaxLimit
    /\ dialog = FALSE
    /\ input_disabled = FALSE
    /\ pc = "idle"
    /\ user_input = ""
    /\ rag_context = NoContext
    /\ lc_history = <<>>
    /\ llm_input = NoInput
    /\ frags = <<>>
    /\ gen = "none"
    /\ retrCalls = 0
    /\ stalled = FALSE
    /\ completed = 0
    /\ event = "init"
    /\ r_pc = "off"
    /\ r_self = create_rag_system
    /\ r_results = <<>>
    /\ r_fail = "none"
    /\ r_out = NoContext
    /\ ConfigOk
    /\ SplitIdle
    /\ IngestIdle

\* A chat_input event carrying u: the script runs from the top with
\* user_input = u, stopping whatever run was in progress.
SubmitAttempt(u) ==
    /\ ~stalled
    /\ event' = "chat_input"
    /\ boot = "ok" /\ script_top_ok(env, streaming_chain)
    /\ input_disabled' = input_disabled_at(turns, limit)
    /\ dialog' = FALSE
    /\ IF accepted(input_disabled')
       THEN /\ Len(history) + 2 <= MaxHistory
            /\ history' = Append(history, UserTurn(u))
            /\ pc' = "retrieve"
            /\ user_input' = u
            /\ rag_context' = NoContext
            /\ lc_history' = <<>>
            /\ llm_input' = NoInput
            /\ frags' = <<>>
            /\ gen' = "none"
            /\ retrCalls' = 0
       ELSE /\ UNCHANGED history
            /\ pc' = "idle"
            /\ ResetRun
    /\ UNCHANGED <<turns, qr_shown, streaming_chain, limit, stalled, completed>>
    /\ UNCHANGED offlineVars

\* A rerun request without widget input (user_input is None): the script
\* renders and ends; a dialog the run does not open is closed.
Rerun ==
    /\ ~stalled
    /\ event' = "rerun"
    /\ boot = "ok" /\ script_top_ok(env, streaming_chain)
    /\ input_disabled' = input_disabled_at(turns, limit)
    /\ dialog' = FALSE
    /\ pc' = "idle"
    /\ ResetRun
    /\ UNCHANGED <<sessionVars, stalled, completed>>
    /\ UNCHANGED offlineVars

\* The survey button of lines 132-137 is rendered and clicked.
GateButton ==
    /\ ~stalled
    /\ event' = "gate"
    /\ boot = "ok" /\ script_top_ok(env, streaming_chain)
    /\ turns >= limit /\ ~qr_shown
    /\ dialog' = TRUE
    /\ qr_shown' = TRUE
    /\ input_disabled' = input_disabled_at(turns, limit)
    /\ pc' = "idle"
    /\ ResetRun
    /\ UNCHANGED <<history, turns, streaming_chain, limit, stalled, completed>>
    /\ UNCHANGED offlineVars

\* show_qr_dialog without "st.session_state.turns = 0"
Restart_keeping_turns ==
    /\ ~stalled
    /\ event' = "restart"
    /\ boot = "ok" /\ script_top_ok(env, streaming_chain)
    /\ dialog
    /\ history' = <<>>
    /\ qr_shown' = FALSE
    /\ dialog' = FALSE
    /\ input_disabled' = input_disabled_at(turns, limit)
    /\ pc' = "idle"
    /\ completed' = 0
    /\ ResetRun
    /\ UNCHANGED <<turns, streaming_chain, limit, stalled>>
    /\ UNCHANGED offlineVars

\* show_qr_dialog without "st.session_state.qr_shown = False"
Restart_keeping_flag ==
    /\ ~stalled
    /\ event' = "restart"
    /\ boot = "ok" /\ script_top_ok(env, streaming_chain)
    /\ dialog
    /\ history' = <<>>
    /\ turns' = 0
    /\ dialog' = FALSE
    /\ input_disabled' = input_disabled_at(turns', limit)
    /\ pc' = "idle"
    /\ completed' = 0
    /\ ResetRun
    /\ UNCHANGED <<qr_shown, streaming_chain, limit, stalled>>
    /\ UNCHANGED offlineVars

\* The restart button inside show_qr_dialog, then st.rerun().
Restart ==
    /\ ~stalled
    /\ event' = "restart"
    /\ boot = "ok" /\ script_top_ok(env, streaming_chain)
    /\ dialog
    /\ history' = <<>>
    /\ turns' = 0
    /\ qr_shown' = FALSE
    /\ dialog' = FALSE
    /\ input_disabled' = input_disabled_at(turns', limit)
    /\ pc' = "idle"
    /\ completed' = 0
    /\ ResetRun
    /\ UNCHANGED <<streaming_chain, limit, stalled>>
    /\ UNCHANGED offlineVars

\* rag_context = get_rag_context(user_input)
RetrieveContext ==
    /\ ~stalled
    /\ event' = "retrieve"
    /\ pc = "retrieve"
    /\ \E rs \in SessionResults, f \in FailModes :
          rag_context' = get_rag_context(rs, f)
    /\ retrCalls' = retrCalls + 1
    /\ pc' = "stream"
    /\ gen' = "new"
    /\ UNCHANGED <<sessionVars, dialog, input_disabled, user_input, lc_history,
                   llm_input, frags, stalled, completed>>
    /\ UNCHANGED offlineVars

\* stream_response_generator, lines 96-101
GenBuildHistory ==
    /\ ~stalled
    /\ event' = "build"
    /\ pc = "stream" /\ gen = "new"
    /\ lc_history' = to_lc_history(history)
    /\ gen' = "chain"
    /\ UNCHANGED <<sessionVars, dialog, input_disabled, pc, user_input,
                   rag_context, llm_input, frags, retrCalls, stalled, completed>>
    /\ UNCHANGED offlineVars

\* a chain whose first step raises on the not-found context: the model is
\* not called and the generator answers with its error fragment
ChainStart_abort_on_empty ==
    /\ ~stalled
    /\ event' = "chain"
    /\ pc = "stream" /\ gen = "chain"
    /\ \E rs \in SessionResults, f \in FailModes :
          LET context_info == get_rag_context(rs, f)
          IN  IF context_info.kind = "not_found"
              THEN /\ llm_input' = llm_input
                   /\ frags' = Append(frags, ERR)
                   /\ gen' = "ended"
              ELSE /\ llm_input' = enhance_query_with_context(
                                      [input |-> user_input,
                                       history |-> lc_history],
                                      context_info)
                   /\ frags' = frags
                   /\ gen' = "llm"
    /\ retrCalls' = retrCalls + 1
    /\ UNCHANGED <<sessionVars, dialog, input_disabled, pc, user_input,
                   rag_context, lc_history, stalled, completed>>
    /\ UNCHANGED offlineVars

\* streaming_chain.stream(...): enhance_query_with_context, prompt, model call
ChainStart ==
    /\ ~stalled
    /\ event' = "chain"
    /\ pc = "stream" /\ gen = "chain"
    /\ \E rs \in SessionResults, f \in FailModes :
          llm_input' = enhance_query_with_context(
                          [input |-> user_input, history |-> lc_history],
                          get_rag_context(rs, f))
    /\ retrCalls' = retrCalls + 1
    /\ gen' = "llm"
    /\ UNCHANGED <<sessionVars, dialog, input_disabled, pc, user_input,
                   rag_context, lc_history, frags, stalled, completed>>
    /\ UNCHANGED offlineVars

\* for chunk in ...stream(...): yield chunk
LlmFragment(f) ==
    /\ ~stalled
    /\ event' = "fragment"
    /\ pc = "stream" /\ gen = "llm"
    /\ Len(frags) < MaxFrags
    /\ frags' = Append(frags, f)
    /\ UNCHANGED <<sessionVars, dialog, input_disabled, pc, user_input,
                   rag_context, lc_history, llm_input, gen, retrCalls, stalled,
                   completed>>
    /\ UNCHANGED offlineVars

\* the model's stream ends
LlmEnd ==
    /\ ~stalled
    /\ event' = "end"
    /\ pc = "stream" /\ gen = "llm"
    /\ gen' = "ended"
    /\ UNCHANGED <<sessionVars, dialog, input_disabled, pc, user_input,
                   rag_context, lc_history, llm_input, frags, retrCalls, stalled,
                   completed>>
    /\ UNCHANGED offlineVars

\* an Exception inside the try block of stream_response_generator
StreamFailure ==
    /\ ~stalled
    /\ event' = "failure"
    /\ pc = "stream" /\ gen \in {"new", "chain", "llm"}
    /\ frags' = on_exception(frags).frags
    /\ gen' = on_exception(frags).gen
    /\ UNCHANGED <<sessionVars, dialog, input_disabled, pc, user_input,
                   rag_context, lc_history, llm_input, retrCalls, stalled,
                   completed>>
    /\ UNCHANGED offlineVars

\* an upstream call (embedding, vector search, model) that never returns
UpstreamStall ==
    /\ ~stalled
    /\ event' = "stall"
    /\ \/ pc = "retrieve"
       \/ pc = "stream" /\ gen \in {"chain", "llm"}
    /\ stalled' = TRUE
    /\ UNCHANGED <<sessionVars, dialog, input_disabled, pc, runVars, completed>>
    /\ UNCHANGED offlineVars

\* lines 163-169 storing a failed answer without counting it
Complete_not_counting_failed ==
    /\ ~stalled
    /\ event' = "complete"
    /\ pc = "stream" /\ gen = "ended"
    /\ history' = Append(history, AssistantTurn(frags))
    /\ IF frags # <<>> /\ frags[Len(frags)] = ERR
       THEN UNCHANGED <<turns, completed, input_disabled>>
       ELSE /\ turns' = turns + 1
            /\ completed' = completed + 1
            /\ input_disabled' = IF turns' >= limit
                                 THEN input_disabled_at(turns', limit)
                                 ELSE input_disabled
    /\ pc' = "idle"
    /\ ResetRun
    /\ UNCHANGED <<qr_shown, streaming_chain, limit, dialog, stalled>>
    /\ UNCHANGED offlineVars

\* lines 163-165 without the st.rerun() of lines 168-169
Complete_without_rerun ==
    /\ ~stalled
    /\ event' = "complete"
    /\ pc = "stream" /\ gen = "ended"
    /\ history' = Append(history, AssistantTurn(frags))
    /\ turns' = turns + 1
    /\ completed' = completed + 1
    /\ pc' = "idle"
    /\ ResetRun
    /\ UNCHANGED <<qr_shown, streaming_chain, limit, dialog, input_disabled,
                   stalled>>
    /\ UNCHANGED offlineVars

\* lines 163-169: append the assistant turn, count it, rerun at the limit
Complete ==
    /\ ~stalled
    /\ event' = "complete"
    /\ pc = "stream" /\ gen = "ended"
    /\ history' = Append(history, AssistantTurn(frags))
    /\ turns' = turns + 1
    /\ completed' = completed + 1
    /\ input_disabled' = IF turns' >= limit
                         THEN input_disabled_at(turns', limit)
                         ELSE input_disabled
    /\ pc' = "idle"
    /\ ResetRun
    /\ UNCHANGED <<qr_shown, streaming_chain, limit, dialog, stalled>>
    /\ UNCHANGED offlineVars

Next ==
    \/ \E u \in Inputs : SubmitAttempt(u)
    \/ Rerun
    \/ GateButton
    \/ Restart
    \/ RetrieveContext
    \/ GenBuildHistory
    \/ ChainStart
    \/ \E f \in Frags : LlmFragment(f)
    \/ LlmEnd
    \/ StreamFailure
    \/ UpstreamStall
    \/ Complete

Spec == Init /\ [][Next]_vars

\* ================================================== retrieval, called alone
\* InstanaRAGSystem objects a caller can construct
Systems == {InstanaRAGSystem(k, t) : k \in {1, DEFAULT_TOP_K},
                                     t \in {FILTER_THRESHOLD,
                                            DEFAULT_SIMILARITY_THRESHOLD, 50}}

InitRetrieve ==
    /\ history = <<>>
    /\ turns = 0
    /\ qr_shown = FALSE
    /\ streaming_chain = "chain"
    /\ limit = 1
    /\ dialog = FALSE
    /\ input_disabled = FALSE
    /\ pc = "idle"
    /\ user_input = ""
    /\ rag_context = NoContext
    /\ lc_history = <<>>
    /\ llm_input = NoInput
    /\ frags = <<>>
    /\ gen = "none"
    /\ retrCalls = 0
    /\ stalled = FALSE
    /\ completed = 0
    /\ event = "init"
    /\ r_pc = "call"
    /\ r_self \in Systems
    /\ r_results \in SearchResults
    /\ r_fail \in FailModes
    /\ r_out = NoContext
    /\ ConfigOk
    /\ SplitIdle
    /\ IngestIdle

sessionAll == <<history, turns, qr_shown, streaming_chain, limit, dialog,
                input_disabled, pc, user_input, rag_context, lc_history,
                llm_input, frags, gen, retrCalls, stalled, completed, event>>

\* a caller evaluates get_rag_context(query)
CallGetRagContext ==
    /\ r_pc = "call"
    /\ r_out' = get_rag_context(r_results, r_fail)
    /\ r_pc' = "get_rag_context"
    /\ UNCHANGED <<r_self, r_results, r_fail>>
    /\ UNCHANGED <<sessionAll, configVars, splitVars, ingestVars>>

\* a caller evaluates r_self.get_detailed_context(query)
CallGetDetailedContext ==
    /\ r_pc = "call"
    /\ r_fail # "init"
    /\ r_out' = get_detailed_context(r_self, r_results, r_fail)
    /\ r_pc' = "get_detailed_context"
    /\ UNCHANGED <<r_self, r_results, r_fail>>
    /\ UNCHANGED <<sessionAll, configVars, splitVars, ingestVars>>

\* a caller evaluates r_self.search_with_scores(query)
CallSearchWithScores ==
    /\ r_pc = "call"
    /\ r_fail \in {"none", "search"}
    /\ r_out' = [kind |-> "hits",
                 hits |-> search_with_scores(r_self, r_results, r_fail)]
    /\ r_pc' = "search_with_scores"
    /\ UNCHANGED <<r_self, r_results, r_fail>>
    /\ UNCHANGED <<sessionAll, configVars, splitVars, ingestVars>>

NextRetrieve ==
    \/ CallGetRagContext
    \/ CallGetDetailedContext
    \/ CallSearchWithScores

SpecRetrieve == InitRetrieve /\ [][NextRetrieve]_vars

\* ====================================================== session startup
\* a session before its first script run, on any set of environment values
InitStartup ==
    /\ history = <<>>
    /\ turns = 0
    /\ qr_shown = FALSE
    /\ streaming_chain = "none"
    /\ limit = 1
    /\ dialog = FALSE
    /\ input_disabled = FALSE
    /\ pc = "idle"
    /\ user_input = ""
    /\ rag_context = NoContext
    /\ lc_history = <<>>
    /\ llm_input = NoInput
    /\ frags = <<>>
    /\ gen = "none"
    /\ retrCalls = 0
    /\ stalled = FALSE
    /\ completed = 0
    /\ event = "init"
    /\ r_pc = "off"
    /\ r_self = create_rag_system
    /\ r_results = <<>>
    /\ r_fail = "none"
    /\ r_out = NoContext
    /\ env \in SUBSET RequiredEnv
    /\ boot = "new"
    /\ SplitIdle
    /\ IngestIdle

\* the first script run of the session, lines 39-55 and the rendering: an
\* exception of line 50 or of build_streaming_chain ends the run before
\* st.chat_input is reached
FirstRun ==
    /\ boot = "new"
    /\ event' = "startup"
    /\ IF script_top_ok(env, streaming_chain)
       THEN /\ boot' = "ok"
            /\ streaming_chain' = "chain"
            /\ input_disabled' = input_disabled_at(turns, limit)
       ELSE /\ boot' = "failed"
            /\ UNCHANGED <<streaming_chain, input_disabled>>
    /\ UNCHANGED <<history, turns, qr_shown, limit, dialog, pc, runVars,
                   stalled, completed, env>>
    /\ UNCHANGED <<retrVars, splitVars, ingestVars>>

NextStartup == FirstRun \/ Next

SpecStartup == InitStartup /\ [][NextStartup]_vars

\* ====================================================== PDFProcessor alone
\* the session and the retrieval functions are not running
SessionAtRest ==
    /\ history = <<>>
    /\ turns = 0
    /\ qr_shown = FALSE
    /\ streaming_chain = "chain"
    /\ limit = 1
    /\ dialog = FALSE
    /\ input_disabled = FALSE
    /\ pc = "idle"
    /\ user_input = ""
    /\ rag_context = NoContext
    /\ lc_history = <<>>
    /\ llm_input = NoInput
    /\ frags = <<>>
    /\ gen = "none"
    /\ retrCalls = 0
    /\ stalled = FALSE
    /\ completed = 0
    /\ event = "init"

RetrieveIdle ==
    /\ r_pc = "off"
    /\ r_self = create_rag_system
    /\ r_results = <<>>
    /\ r_fail = "none"
    /\ r_out = NoContext

\* text lengths of a page: empty, under, at and over chunk_size
PageLens == {0, 600, 1000, 1800, 2700}

\* RecursiveCharacterTextSplitter.split_text on a text of n characters, as
\* the lengths of the chunks: chunks of at most chunk_size characters, each
\* starting chunk_overlap characters before the end of the one before; an
\* empty text gives no chunk
RECURSIVE split_text(_)
split_text(n) ==
    IF n = 0 THEN <<>>
    ELSE IF n <= CHUNK_SIZE THEN <<n>>
    ELSE <<CHUNK_SIZE>> \o split_text(n - (CHUNK_SIZE - CHUNK_OVERLAP))

\* the chunks of one page, each carrying the page's metadata
page_chunks(doc) ==
    LET lens == split_text(doc.len)
    IN [j \in 1..Len(lens) |-> [page |-> doc.page, len |-> lens[j]]]

\* text_splitter.split_documents(documents): the pages' chunks, page by page
RECURSIVE text_splitter_split_documents(_)
text_splitter_split_documents(documents) ==
    IF documents = <<>> THEN <<>>
    ELSE page_chunks(Head(documents))
             \o text_splitter_split_documents(Tail(documents))

\* loader.load(): one Document per page, PyPDFLoader numbers pages from 0
load_pdf(pages) == [p \in 1..Len(pages) |-> [page |-> p - 1, len |-> pages[p]]]

\* split_documents numbering the chunks of each page from 0
split_documents_per_page(documents) ==
    LET split_docs == text_splitter_split_documents(documents)
        same(i) == {j \in 1..Len(split_docs) : split_docs[j].page = split_docs[i].page}
    IN [i \in 1..Len(split_docs) |->
            [page |-> split_docs[i].page,
             len |-> split_docs[i].len,
             chunk_id |-> Cardinality({j \in same(i) : j < i}),
             total_chunks |-> Cardinality(same(i))]]

\* split_documents: for i, doc in enumerate(split_docs):
\*     chunk_id = i; total_chunks = len(split_docs)
split_documents(documents) ==
    LET split_docs == text_splitter_split_documents(documents)
    IN [i \in 1..Len(split_docs) |->
            [page |-> split_docs[i].page,
             len |-> split_docs[i].len,
             chunk_id |-> i - 1,
             total_chunks |-> Len(split_docs)]]

\* process_pdf(pdf_path)
process_pdf(pages) == split_documents(load_pdf(pages))

InitSplit ==
    /\ SessionAtRest
    /\ RetrieveIdle
    /\ ConfigOk
    /\ s_pc = "call"
    /\ s_pages \in SeqsUpTo(PageLens, MaxPages)
    /\ s_chunks = <<>>
    /\ s_stats = <<>>
    /\ IngestIdle

\* process_pdf on an existing file
ProcessPdf ==
    /\ s_pc = "call"
    /\ s_chunks' = process_pdf(s_pages)
    /\ s_pc' = "done"
    /\ UNCHANGED <<s_pages, s_stats>>
    /\ UNCHANGED <<sessionAll, retrVars, configVars, ingestVars>>

\* load_pdf raises: the path does not exist or the loader fails
ProcessPdfRaises ==
    /\ s_pc = "call"
    /\ s_pc' = "raised"
    /\ UNCHANGED <<s_pages, s_chunks, s_stats>>
    /\ UNCHANGED <<sessionAll, retrVars, configVars, ingestVars>>

\* sum(len(doc.page_content) for doc in documents)
RECURSIVE total_chars(_)
total_chars(documents) ==
    IF documents = <<>> THEN 0
    ELSE Head(documents).len + total_chars(Tail(documents))

\* round(total / n, 2), in 1/100, a tie going to the even digit
round2(total, n) ==
    LET q == (total * 100) \div n
        r == (total * 100) % n
    IN IF 2 * r > n THEN q + 1
       ELSE IF 2 * r = n THEN q + (q % 2)
       ELSE q

chunk_sizes(documents) == {documents[i].len : i \in 1..Len(documents)}

\* the keys main reads from the stats it prints
StatsKeysRead == {"total_chunks", "total_characters", "avg_chunk_size",
                  "min_chunk_size", "max_chunk_size"}

\* get_document_stats(documents)
get_document_stats(documents) ==
    IF documents = <<>>
    THEN [total_chunks |-> 0, total_characters |-> 0, avg_chunk_size |-> 0]
    ELSE [total_chunks |-> Len(documents),
          total_characters |-> total_chars(documents),
          avg_chunk_size |-> round2(total_chars(documents), Len(documents)),
          min_chunk_size |-> CHOOSE m \in chunk_sizes(documents) :
                                \A x \in chunk_sizes(documents) : m <= x,
          max_chunk_size |-> CHOOSE m \in chunk_sizes(documents) :
                                \A x \in chunk_sizes(documents) : m >= x]

\* main: stats = pdf_processor.get_document_stats(documents)
GetDocumentStats ==
    /\ s_pc = "done"
    /\ s_stats' = get_document_stats(s_chunks)
    /\ s_pc' = "stats"
    /\ UNCHANGED <<s_pages, s_chunks>>
    /\ UNCHANGED <<sessionAll, retrVars, configVars, ingestVars>>

\* main prints stats['total_chunks'] ... stats['max_chunk_size']; a key the
\* dict lacks raises KeyError, which main's except answers with return False
PrintStats ==
    /\ s_pc = "stats"
    /\ s_pc' = IF StatsKeysRead \subseteq DOMAIN s_stats
               THEN "printed" ELSE "KeyError"
    /\ UNCHANGED <<s_pages, s_chunks, s_stats>>
    /\ UNCHANGED <<sessionAll, retrVars, configVars, ingestVars>>

NextSplit == ProcessPdf \/ ProcessPdfRaises \/ GetDocumentStats \/ PrintStats

SpecSplit == InitSplit /\ [][NextSplit]_vars

\* ======================================================== ingestion job
\* documents[i:i + batch_size], as the index of its first chunk and its size
batch_at(i, n) == [first |-> i, count |-> Min(BATCH_SIZE, n - i)]

\* main has processed the PDF into g_n chunks and reached the insert loop
InitIngest ==
    /\ SessionAtRest
    /\ RetrieveIdle
    /\ ConfigOk
    /\ SplitIdle
    /\ g_pc = "insert"
    /\ g_n \in 0..MaxDocs
    /\ g_i = 0
    /\ g_attempts = 0
    /\ g_store = <<>>
    /\ g_result = "none"

\* one pass of the loop body: add_documents(batch) returns
AddDocuments ==
    /\ g_pc = "insert"
    /\ g_i < g_n
    /\ g_attempts' = g_attempts + 1
    /\ g_store' = Append(g_store, batch_at(g_i, g_n))
    /\ g_i' = g_i + BATCH_SIZE
    /\ UNCHANGED <<g_pc, g_n, g_result>>
    /\ UNCHANGED <<sessionAll, retrVars, configVars, splitVars>>

\* the loop body skipping a failed batch and going on to the next
AddDocumentsFails_continue ==
    /\ g_pc = "insert"
    /\ g_i < g_n
    /\ g_attempts' = g_attempts + 1
    /\ g_i' = g_i + BATCH_SIZE
    /\ UNCHANGED <<g_pc, g_n, g_store, g_result>>
    /\ UNCHANGED <<sessionAll, retrVars, configVars, splitVars>>

\* one pass of the loop body: add_documents(batch) raises, main returns False
AddDocumentsFails ==
    /\ g_pc = "insert"
    /\ g_i < g_n
    /\ g_attempts' = g_attempts + 1
    /\ g_result' = "False"
    /\ g_pc' = "done"
    /\ UNCHANGED <<g_n, g_i, g_store>>
    /\ UNCHANGED <<sessionAll, retrVars, configVars, splitVars>>

\* range(0, len(documents), batch_size) is exhausted
LoopEnd ==
    /\ g_pc = "insert"
    /\ g_i >= g_n
    /\ g_pc' = "verify"
    /\ UNCHANGED <<g_n, g_i, g_attempts, g_store, g_result>>
    /\ UNCHANGED <<sessionAll, retrVars, configVars, splitVars>>

\* step 6 of main reads the collection and searches it, then main returns
VerifyAndReturn ==
    /\ g_pc = "verify"
    /\ g_result' \in {"True", "False"}
    /\ g_pc' = "done"
    /\ UNCHANGED <<g_n, g_i, g_attempts, g_store>>
    /\ UNCHANGED <<sessionAll, retrVars, configVars, splitVars>>

NextIngest == AddDocuments \/ AddDocumentsFails \/ LoopEnd \/ VerifyAndReturn

SpecIngest == InitIngest /\ [][NextIngest]_vars

\* ============================================================ properties
\* the states of the session state machine
Active == turns < limit
LimitReached == turns >= limit /\ ~qr_shown
Gated == turns >= limit /\ qr_shown

AssistantAt == {i \in 1..Len(history) : history[i].role = "assistant"}

\* C1: at turns >= limit a chat_input event is rejected: history and turns
\* are unchanged and neither retrieval nor the generator is started.
C1_RejectedAtLimit ==
    [][(turns >= limit /\ event' = "chat_input")
         => /\ history' = history
            /\ turns' = turns
            /\ pc' = "idle"
            /\ retrCalls' = 0
            /\ gen' = "none"]_vars

C1_Witness ==
    /\ event = "chat_input"
    /\ turns >= limit
    /\ pc = "idle"
    /\ Len(history) = 2 * turns

\* C2: turns is the number of assistant turns in history, and every
\* assistant turn directly follows a user turn.
C2_TurnsCountExchanges ==
    /\ turns = Cardinality(AssistantAt)
    /\ \A i \in AssistantAt : i > 1 /\ history[i - 1].role = "user"

\* an interrupted submission left a user turn without answer, a later one
\* completed
C2_Witness ==
    /\ Len(history) = 3
    /\ history[1].role = "user"
    /\ history[2].role = "user"
    /\ history[3].role = "assistant"
    /\ turns = 1

\* C3: the chat input is rendered disabled exactly when turns >= limit; once
\* at the limit the session stays there until restart; only restart lowers
\* turns.
C3_LimitReachedSticky ==
    /\ [](input_disabled <=> turns >= limit)
    /\ [][(turns >= limit /\ event' # "restart")
            => (turns' >= limit /\ input_disabled')]_vars
    /\ [][turns' < turns => event' = "restart"]_vars

\* at the limit, the gate was shown and the page rerun: still disabled
C3_Witness ==
    /\ turns >= limit
    /\ input_disabled
    /\ qr_shown
    /\ event = "rerun"

\* C4: completing a submission adds exactly 1 to turns, from a state below
\* the limit; the session is then LIMIT_REACHED iff the new count meets the
\* limit and ACTIVE otherwise; after c completed submissions turns = c, so
\* the session is ACTIVE for c < limit, LIMIT_REACHED or GATED for
\* c = limit, and turns never exceeds limit.
C4_SubmitIncrements ==
    /\ [](turns <= limit /\ turns = completed)
    /\ [][event' = "complete"
            => /\ turns < limit
               /\ turns' = turns + 1
               /\ (LimitReached' <=> turns' >= limit)
               /\ (Active' <=> turns' < limit)]_vars
    /\ [][(turns' # turns /\ event' # "restart") => event' = "complete"]_vars

\* the submission that reaches a limit of 2
C4_Witness ==
    /\ event = "complete"
    /\ limit = 2
    /\ turns = 2
    /\ LimitReached

\* C5: restart is enabled only in GATED, and yields ACTIVE with empty
\* history, turns 0 and qr_shown cleared; limit and streaming_chain are
\* unchanged.
C5_RestartResets ==
    /\ []((ENABLED Restart) => Gated)
    /\ [][event' = "restart"
            => /\ Gated
               /\ history' = <<>>
               /\ turns' = 0
               /\ qr_shown' = FALSE
               /\ Active'
               /\ limit' = limit
               /\ streaming_chain' = streaming_chain]_vars

C5_Witness ==
    /\ event = "restart"
    /\ history = <<>>
    /\ turns = 0
    /\ ~qr_shown
    /\ limit = 2

\* C6: between script runs the session at the limit can still be restarted:
\* the survey button (which opens the dialog holding the restart button) or
\* the restart button is available.
C6_RestartReachable ==
    (pc = "idle" /\ turns >= limit) => (ENABLED GateButton \/ ENABLED Restart)

\* C7: no user turn is appended while a response is in flight: every user
\* turn but the last is directly followed by its assistant turn.
C7_OneCycleAtATime ==
    \A i \in 1..(Len(history) - 1) :
        history[i].role = "user" => history[i + 1].role = "assistant"

\* C8: a failure in the generator (before or after any fragment) is not
\* raised to the consumer: exactly one fragment, the error fragment, is
\* yielded after it and the stream is ended.
C8_FailureYieldsOneFragment ==
    /\ [](gen # "raised")
    /\ [][event' = "failure"
            => (frags' = Append(frags, ERR) /\ gen' = "ended")]_vars
    /\ [][(gen = "ended" /\ pc' = "stream") => frags' = frags]_vars

\* a failure after two fragments
C8_Witness ==
    /\ event = "failure"
    /\ gen = "ended"
    /\ Len(frags) = 3
    /\ frags[3] = ERR
    /\ frags[1] \in Frags

\* a step of the submission cycle in progress
RunStep ==
    \/ RetrieveContext
    \/ GenBuildHistory
    \/ ChainStart
    \/ \E f \in Frags : LlmFragment(f)
    \/ LlmEnd
    \/ StreamFailure
    \/ Complete

\* C9: a submission in flight is never wedged: its cycle can always take
\* its next step towards the assistant turn.
C9_NeverWedged == (pc # "idle") => ENABLED RunStep

\* C10: when no candidate reaches the filter's threshold, the retrieval
\* returns the not-found sentinel with no sources, document count 0 and
\* average score 0.
NoSurvivor == \A i \in 1..Len(r_results) : r_results[i].score < FILTER_THRESHOLD

C10_EmptySentinel ==
    (r_pc \in {"get_rag_context", "get_detailed_context"} /\ NoSurvivor)
        => /\ r_out.kind = "not_found"
           /\ r_out.sources = <<>>
           /\ r_out.total_documents = 0
           /\ r_out.average_score = 0

\* a non-empty answer of the store whose hits are all below the threshold
C10_Witness ==
    /\ r_pc = "get_detailed_context"
    /\ r_fail = "none"
    /\ Len(r_results) > 0
    /\ NoSurvivor
    /\ r_out.kind = "not_found"

\* C11: a failure at any step of the retrieval is answered with the
\* not-found sentinel, the one returned when no candidate survives.
C11_FailureGivesSentinel ==
    (r_pc \in {"get_rag_context", "get_detailed_context"} /\ r_fail # "none")
        => /\ r_out.kind = "not_found"
           /\ r_out.sources = <<>>
           /\ r_out.total_documents = 0
           /\ r_out.average_score = 0

\* the candidates of a call: the first top_k hits of the store's answer
Candidates == similarity_search_with_score(r_results, r_self.top_k)

\* the positions of the candidates with a score of at least t
KeptAt(t) == {i \in 1..Len(Candidates) : Candidates[i].score >= t}

\* the j-th smallest position of a set of positions
Nth(I, j) == CHOOSE i \in I : Cardinality({k \in I : k < i}) = j - 1

\* out holds exactly the candidates scoring at least t, in their order
IsFilterOf(out, t) ==
    /\ Len(out) = Cardinality(KeptAt(t))
    /\ \A j \in 1..Len(out) : out[j] = Candidates[Nth(KeptAt(t), j)]

\* C13: search_with_scores returns exactly the candidates whose score is at
\* least 0.3 (0.3 included), in their original relative order.
C13_FilterKeepsOrder ==
    (r_pc = "search_with_scores" /\ r_fail = "none")
        => IsFilterOf(r_out.hits, FILTER_THRESHOLD)

\* the example [(A,0.5),(B,0.25),(C,0.31)] gives [A,C]
C13_Witness ==
    /\ r_pc = "search_with_scores"
    /\ r_fail = "none"
    /\ r_self.top_k = DEFAULT_TOP_K
    /\ r_results = <<dA, dB, dC>>
    /\ r_out.hits = <<dA, dC>>

\* C14: the filter keeps exactly the candidates scoring at least the
\* system's configured similarity_threshold.
C14_ConfiguredThreshold ==
    (r_pc = "search_with_scores" /\ r_fail = "none")
        => IsFilterOf(r_out.hits, r_self.similarity_threshold)

\* the hit of the store's answer a part of the context was made from
HitOf(part) == CHOOSE h \in Hits : h.id = part.id

\* C18 as amended: the text a surviving chunk contributes is the whole chunk
\* when it has at most 400 characters, and otherwise its first 400
\* characters followed by "...": at most 403 characters.
C18_PreviewAtMost403 ==
    (r_pc = "get_detailed_context" /\ r_out.kind = "docs")
        => \A i \in 1..Len(r_out.parts) :
              LET part == r_out.parts[i]
              IN  /\ part.content_len <= PREVIEW_LEN + ELLIPSIS_LEN
                  /\ HitOf(part).len <= PREVIEW_LEN
                        => part.content_len = HitOf(part).len
                  /\ HitOf(part).len > PREVIEW_LEN
                        => part.content_len = PREVIEW_LEN + ELLIPSIS_LEN

\* C18 as claimed: the text a surviving chunk contributes has at most 400
\* characters.
C18_PreviewAtMost400 ==
    (r_pc = "get_detailed_context" /\ r_out.kind = "docs")
        => \A i \in 1..Len(r_out.parts) :
              r_out.parts[i].content_len <= PREVIEW_LEN

\* a chunk of 401 characters and one of 120 in the same context
C18_Witness ==
    /\ r_pc = "get_detailed_context"
    /\ r_out.kind = "docs"
    /\ Len(r_out.parts) = 2
    /\ r_out.parts[1].id = "C"
    /\ r_out.parts[1].content_len = PREVIEW_LEN + ELLIPSIS_LEN
    /\ r_out.parts[2].id = "A"
    /\ r_out.parts[2].content_len = 120

\* C12: the not-found sentinel does not abort the submission: the retrieval
\* step hands over to the generator, the chain builds the prompt and calls
\* the model whatever the context, and completing such a run appends the
\* assistant turn and counts it.
C12_EmptyContextProceeds ==
    /\ []((pc = "stream" /\ gen = "chain" /\ ~stalled) => ENABLED ChainStart)
    /\ [][event' = "retrieve" => (pc' = "stream" /\ gen' = "new")]_vars
    /\ [][event' = "chain"
            => /\ gen' = "llm"
               /\ llm_input'.input = user_input
               /\ llm_input'.context.kind # "none"]_vars
    /\ [][(event' = "complete" /\ llm_input.context.kind = "not_found")
            => /\ history' = Append(history, AssistantTurn(frags))
               /\ turns' = turns + 1]_vars

\* both retrievals gave the sentinel and the model streamed two fragments
C12_Witness ==
    /\ pc = "stream"
    /\ gen = "ended"
    /\ rag_context.kind = "not_found"
    /\ llm_input.context.kind = "not_found"
    /\ Len(frags) = 2
    /\ frags[2] \in Frags

\* C19: the history handed to the model is the session history without its
\* last turn, which is the user turn just submitted; order is kept, user
\* turns are tagged human and assistant turns ai; the current input is the
\* chain's input.
C19_HistoryExcludesCurrent ==
    (pc = "stream" /\ llm_input.input # "")
        => LET n == Len(history)
           IN  /\ n >= 1
               /\ history[n] = UserTurn(user_input)
               /\ llm_input.input = user_input
               /\ Len(llm_input.history) = n - 1
               /\ \A i \in 1..(n - 1) :
                     /\ llm_input.history[i].content = history[i].content
                     /\ llm_input.history[i].tag =
                           (IF history[i].role = "user" THEN "human" ELSE "ai")

\* the second submission of a session: one exchange is passed, q2 is not
C19_Witness ==
    /\ pc = "stream"
    /\ user_input = "q2"
    /\ llm_input.input = "q2"
    /\ Len(llm_input.history) = 2
    /\ llm_input.history[1] = [tag |-> "human", content |-> <<"q1">>]
    /\ llm_input.history[2].tag = "ai"

\* C20: when the model is called, the retrieval has been invoked exactly
\* once for the submission and the prompt's context is its result.
C20_OneRetrieval ==
    (pc = "stream" /\ llm_input.input # "")
        => (retrCalls = 1 /\ llm_input.context = rag_context)

\* C15: with a required environment value missing the session never gets
\* past its first script run: no chain is stored, no event is handled and no
\* user turn is accepted.
C15_FailsAtStartup ==
    (env # RequiredEnv)
        => /\ boot # "ok"
           /\ streaming_chain = "none"
           /\ history = <<>>
           /\ pc = "idle"
           /\ event \in {"init", "startup"}

\* the API key alone is missing and the first run has failed
C15_Witness ==
    /\ env = RequiredEnv \ {"WATSONX_APIKEY"}
    /\ boot = "failed"
    /\ event = "startup"

\* C16: the chunks process_pdf returns for one document carry chunk_id
\* 0..n-1 in output order and total_chunks = n, n being their number.
C16_ChunkNumbering ==
    (s_pc = "done")
        => \A i \in 1..Len(s_chunks) :
               /\ s_chunks[i].chunk_id = i - 1
               /\ s_chunks[i].total_chunks = Len(s_chunks)

\* a document of several pages, one of them split into several chunks
C16_Witness ==
    /\ s_pc = "done"
    /\ Len(s_chunks) >= 3
    /\ \E i \in 1..Len(s_chunks) : s_chunks[i].page # s_chunks[1].page
    /\ \E i \in 2..Len(s_chunks) : s_chunks[i].page = s_chunks[i - 1].page

\* C17: the store holds the job's batches in document order; a failed
\* add_documents ends the job with a failure result at once; after that no
\* further insert is attempted; and no step removes or rewrites a batch the
\* store already holds.
C17_AbortKeepsInserted ==
    /\ [](\A k \in 1..Len(g_store) :
              g_store[k] = batch_at((k - 1) * BATCH_SIZE, g_n))
    /\ [][(g_attempts' = g_attempts + 1 /\ g_store' = g_store)
              => (g_result' = "False" /\ g_pc' = "done")]_vars
    /\ [][(g_result = "False")
              => (g_attempts' = g_attempts /\ g_store' = g_store)]_vars
    /\ [][/\ Len(g_store') >= Len(g_store)
          /\ SubSeq(g_store', 1, Len(g_store)) = g_store]_vars

\* the third batch failed after two batches were inserted
C17_Witness ==
    /\ g_result = "False"
    /\ g_attempts = 3
    /\ Len(g_store) = 2
    /\ g_store[2].count = BATCH_SIZE

\* C21: for every chunk sequence process_pdf can return, the empty one
\* included, get_document_stats leaves the chunks as they are and returns
\* every field main reads, so main's printing of them never fails.
C21_StatsComplete ==
    /\ (s_pc \in {"stats", "printed", "KeyError"})
           => /\ StatsKeysRead \subseteq DOMAIN s_stats
              /\ s_chunks = process_pdf(s_pages)
    /\ s_pc # "KeyError"

\* the stream of the submission in progress has failed
StreamFailed == pc = "stream" /\ frags # <<>> /\ frags[Len(frags)] = ERR

\* C22: once the stream has failed the script goes on to line 163 like
\* after a successful stream; the step that completes the submission stores
\* the fragments yielded so far with the error fragment last as the assistant
\* turn and adds exactly 1 to turns, and at the limit the input is disabled.
C22_FailedExchangeCounts ==
    /\ [](event = "failure" => (StreamFailed /\ ENABLED Complete))
    /\ [][(StreamFailed /\ event' = "complete")
            => /\ history' = Append(history, AssistantTurn(frags))
               /\ turns' = turns + 1
               /\ (input_disabled' <=> turns' >= limit)]_vars

\* a stream that failed after one fragment used up the last turn
C22_Witness ==
    /\ event = "complete"
    /\ turns = limit
    /\ input_disabled
    /\ history # <<>>
    /\ history[Len(history)] = AssistantTurn(<<"f1", ERR>>)

====
